---- MODULE Spec2Model ----
(***************************************************************************)
(* Model of py-image-compressor: the format registry (src/config.py,       *)
(* src/utils.py), the `process` command (src/app.py) and the discovery,    *)
(* single-image pipeline and batch runner (src/image_processing.py).       *)
(*                                                                         *)
(* Python strings are sequences of one-character strings, so that          *)
(* str.lower(), str.lstrip("."), suffix matching and concatenation are     *)
(* computed and not assumed.                                               *)
(***************************************************************************)
EXTENDS Integers, Sequences, FiniteSets, TLC

VARIABLES
    pc,                    \* position of the running command / call
    pillow_heif,           \* image_processing.pillow_heif is not None
    args,                  \* the arguments `process` was invoked with
    input_format_details,  \* process(): locals
    output_format_details,
    output_file_extension,
    target_resolution,
    files_to_process,
    idx,                   \* run_batch_processing: number of paths the loop has handled
    processed_count,       \* run_batch_processing: locals
    error_count,
    result,                \* value returned by run_batch_processing
    exit_code,             \* typer.Exit code of the command
    fs,                    \* observable effects on the file system
    progress,              \* rich progress task: completed, total
    last,                  \* the most recent _process_single_image call
    resolve                \* a direct validate_and_get_format_details call

vars == <<pc, pillow_heif, args, input_format_details, output_format_details,
          output_file_extension, target_resolution, files_to_process, idx,
          processed_count, error_count, result, exit_code, fs, progress, last,
          resolve>>

-----------------------------------------------------------------------------
(* Characters and Python string operations                                 *)

Alphabet ==
    <<".",
      "A","B","C","D","E","F","G","H","I","J","K","L","M",
      "N","O","P","Q","R","S","T","U","V","W","X","Y","Z",
      "a","b","c","d","e","f","g","h","i","j","k","l","m",
      "n","o","p","q","r","s","t","u","v","w","x","y","z">>

Ord(c) == CHOOSE i \in 1..Len(Alphabet) : Alphabet[i] = c

IsUpper(c) == Ord(c) \in 2..27

LowerChar(c) == IF IsUpper(c) THEN Alphabet[Ord(c) + 26] ELSE c

\* str.lower()
Lower(s) == [i \in 1..Len(s) |-> LowerChar(s[i])]

\* str.lstrip("."): removes every leading dot
RECURSIVE LStripDot(_)
LStripDot(s) == IF s # <<>> /\ Head(s) = "." THEN LStripDot(Tail(s)) ELSE s

\* str.endswith, as used by the glob pattern "*{suffix}"
EndsWith(s, suf) ==
    /\ Len(s) >= Len(suf)
    /\ SubSeq(s, Len(s) - Len(suf) + 1, Len(s)) = suf

-----------------------------------------------------------------------------
(* src/config.py                                                           *)

ALL_FORMATS_KEYWORD == <<"a","l","l">>

PNG  == <<"P","N","G">>
JPEG == <<"J","P","E","G">>
WEBP == <<"W","E","B","P">>
TIFF == <<"T","I","F","F">>
BMP  == <<"B","M","P">>
GIF  == <<"G","I","F">>
HEIF == <<"H","E","I","F">>

\* the keys of SUPPORTED_FORMATS, in insertion order
FormatKeys ==
    << <<"p","n","g">>, <<"j","p","g">>, <<"j","p","e","g">>,
       <<"w","e","b","p">>, <<"t","i","f","f">>, <<"b","m","p">>,
       <<"g","i","f">>, <<"a","p","n","g">>, <<"h","e","i","c">>,
       <<"h","e","i","f">> >>

KeySet == {FormatKeys[i] : i \in 1..Len(FormatKeys)}

JpegSuffixes ==
    << <<".","j","p","g">>, <<".","j","p","e","g">>,
       <<".","j","f","i","f">>, <<".","j","p","e">> >>

SUPPORTED_FORMATS(k) ==
    CASE k = <<"p","n","g">> ->
           [pillow_format |-> PNG, suffixes |-> << <<".","p","n","g">> >>]
      [] k = <<"j","p","g">> ->
           [pillow_format |-> JPEG, suffixes |-> JpegSuffixes]
      [] k = <<"j","p","e","g">> ->
           [pillow_format |-> JPEG, suffixes |-> JpegSuffixes]
      [] k = <<"w","e","b","p">> ->
           [pillow_format |-> WEBP, suffixes |-> << <<".","w","e","b","p">> >>]
      [] k = <<"t","i","f","f">> ->
           [pillow_format |-> TIFF,
            suffixes |-> << <<".","t","i","f","f">>, <<".","t","i","f">> >>]
      [] k = <<"b","m","p">> ->
           [pillow_format |-> BMP, suffixes |-> << <<".","b","m","p">> >>]
      [] k = <<"g","i","f">> ->
           [pillow_format |-> GIF, suffixes |-> << <<".","g","i","f">> >>]
      [] k = <<"a","p","n","g">> ->
           [pillow_format |-> PNG,
            suffixes |-> << <<".","p","n","g">>, <<".","a","p","n","g">> >>]
      [] k = <<"h","e","i","c">> ->
           [pillow_format |-> HEIF, suffixes |-> << <<".","h","e","i","c">> >>]
      [] k = <<"h","e","i","f">> ->
           [pillow_format |-> HEIF,
            suffixes |-> << <<".","h","e","i","f">>, <<".","a","v","i","f">> >>]

-----------------------------------------------------------------------------
(* src/utils.py                                                            *)

\* a faulty variant of Normalize: the .lower() call is missing
NormalizeNoLower(format_str) == LStripDot(format_str)

\* normalized_format_str = format_str.lower().lstrip(".")
Normalize(format_str) == LStripDot(Lower(format_str))

\* no dict was returned (typer.Exit was raised, or nothing was called yet)
NoDetails == [pillow_format |-> <<>>, suffixes |-> <<>>]

AllFormatsDetails ==
    [pillow_format |-> ALL_FORMATS_KEYWORD, suffixes |-> <<ALL_FORMATS_KEYWORD>>]

\* a faulty variant of validate_and_get_format_details: the wildcard is accepted
\* for either role
ValidateAllAnyRole(format_str, format_type) ==
    LET n == Normalize(format_str) IN
    IF n = ALL_FORMATS_KEYWORD
    THEN [exit |-> FALSE, details |-> AllFormatsDetails]
    ELSE IF n \notin KeySet
         THEN [exit |-> TRUE, details |-> NoDetails]
         ELSE [exit |-> FALSE, details |-> SUPPORTED_FORMATS(n)]

\* validate_and_get_format_details: exit = typer.Exit(code=1) was raised
validate_and_get_format_details(format_str, format_type) ==
    LET n == Normalize(format_str) IN
    IF format_type = "input" /\ n = ALL_FORMATS_KEYWORD
    THEN [exit |-> FALSE, details |-> AllFormatsDetails]
    ELSE IF n \notin KeySet
         THEN [exit |-> TRUE, details |-> NoDetails]
         ELSE [exit |-> FALSE, details |-> SUPPORTED_FORMATS(n)]

\* get_pillow_save_options: the keys of the returned dict
get_pillow_save_options(output_pillow_format) ==
    (IF output_pillow_format \in {JPEG, WEBP, HEIF} THEN {"quality"} ELSE {})
    \cup (IF output_pillow_format = PNG THEN {"optimize"} ELSE {})

-----------------------------------------------------------------------------
(* Decoded images (Pillow)                                                 *)
(*                                                                         *)
(* A frame is [index, mode, transparency, resized, size, duration, loop]:   *)
(* its 0-based position in the source file, its Pillow mode, whether       *)
(* "transparency" is in its info dict, the resize operation applied to it  *)
(* so far, its (width, height), and the "duration" and "loop" entries of   *)
(* its info dict (<<>> when the entry is absent, <<v>> when it is v).  An  *)
(* opened file is the sequence of its frames; an image file reports        *)
(* is_animated exactly when it holds more than one frame.                  *)

MaxFrames == 2

Modes == {"RGB", "RGBA", "P", "LA", "L"}

\* img.size of a frame whose size plays no part
DefaultSize == <<1600, 1200>>

\* frame i of a freshly opened file, with no duration and no loop entry
PlainFrame(i, m, t) ==
    [index |-> i, mode |-> m, transparency |-> t, resized |-> "no",
     size |-> DefaultSize, duration |-> <<>>, loop |-> <<>>]

Frames(i) ==
    {PlainFrame(i, m, t) : m \in Modes, t \in BOOLEAN} \ 
    {PlainFrame(i, m, TRUE) : m \in Modes \ {"P"}}

RECURSIVE ImagesOfLength(_)
ImagesOfLength(n) ==
    IF n = 0 THEN {<<>>}
    ELSE {Append(s, f) : s \in ImagesOfLength(n - 1), f \in Frames(n - 1)}

Images == UNION {ImagesOfLength(n) : n \in 1..MaxFrames}

\* Image.convert(mode): a new plain image; info is copied
Convert(f, mode) == [f EXCEPT !.mode = mode]

\* Image.resize(size=target_resolution): a new image of the same mode and
\* info, of exactly the size asked for
Resize(f, size) == [f EXCEPT !.resized = "exact", !.size = size]

Abs(n) == IF n < 0 THEN -n ELSE n

\* Image.thumbnail, preserve_aspect_ratio(): nothing to do when the box holds
\* the image; otherwise the side that the aspect ratio leaves free is
\* round_aspect(number, key) = max(min(floor, ceil, key=key), 1), where key
\* is the distance of the resulting aspect ratio from the image's (ratios are
\* compared cross-multiplied; min() keeps floor on a tie)
ThumbnailSize(size, box) ==
    LET w == size[1]
        h == size[2]
        x == box[1]
        y == box[2]
        xlo == (y * w) \div h
        xhi == IF (y * w) % h = 0 THEN xlo ELSE xlo + 1
        xkey(n) == Abs(w * y - n * h)
        xnew == IF xkey(xlo) <= xkey(xhi) THEN xlo ELSE xhi
        ylo == (x * h) \div w
        yhi == IF (x * h) % w = 0 THEN ylo ELSE ylo + 1
        ynew == IF ylo = 0 THEN ylo
                ELSE IF Abs(w * ylo - x * h) * yhi <= Abs(w * yhi - x * h) * ylo
                THEN ylo ELSE yhi
    IN  IF x >= w /\ y >= h THEN size
        ELSE IF x * h >= w * y
        THEN <<IF xnew < 1 THEN 1 ELSE xnew, y>>
        ELSE <<x, IF ynew < 1 THEN 1 ELSE ynew>>

\* Image.thumbnail(size=target_resolution): in place, the same mode and info
Thumbnail(f, size) ==
    [f EXCEPT !.resized = "fit", !.size = ThumbnailSize(f.size, size)]

\* list(ImageSequence.Iterator(img)): Iterator.__next__ seeks img and returns
\* img itself, so the list holds n references to the one file object, which
\* is left positioned on its last frame
ImageSequenceList(frames) == [i \in 1..Len(frames) |-> frames[Len(frames)]]

\* what outcome the codec has for one file: nothing raised, or an exception
\* raised by Image.open or by Image.save
Faults ==
    {[kind |-> "none", at |-> "none"],
     [kind |-> "UnidentifiedImageError", at |-> "open"],
     [kind |-> "AttributeError", at |-> "open"],
     [kind |-> "IOError", at |-> "save"],
     [kind |-> "Exception", at |-> "save"]}

NoFault == [kind |-> "none", at |-> "none"]

MultiFrameFormats == {GIF, WEBP, TIFF, PNG, HEIF}

NoCall ==
    [called |-> FALSE, ok |-> FALSE, source |-> <<>>, fault |-> NoFault,
     output_pillow_format |-> <<>>, output_is_apng |-> FALSE,
     target_resolution |-> <<>>, force_aspect_ratio |-> FALSE,
     saved |-> FALSE, image |-> <<>>, append_images |-> <<>>,
     save_all |-> FALSE, save_options |-> {}, duration |-> <<>>,
     loop |-> <<>>, warned |-> FALSE, error |-> "none"]

-----------------------------------------------------------------------------
(* src/image_processing.py: _process_single_image                         *)

\* lines 67-125: the resize stage.  Returns the working image (file: it is
\* still the opened file object) and resized_frames_for_animation (<<>> for
\* None)
ResizeStage(frames, resolution, force_aspect_ratio) ==
    LET n == Len(frames)
        frames_in == ImageSequenceList(frames)
        frames_out ==
            [i \in 1..n |->
                LET frame_to_resize ==
                        IF frames_in[i].mode = "P"
                        THEN Convert(frames_in[i], "RGBA")
                        ELSE frames_in[i]
                IN  IF force_aspect_ratio
                    THEN Resize(frame_to_resize, resolution)
                    ELSE Thumbnail(frame_to_resize, resolution)]
    IN  IF resolution = <<>>
        THEN [img |-> [file |-> TRUE, frame |-> frames[1]], resized |-> <<>>]
        ELSE IF n > 1
        THEN [img |-> [file |-> FALSE, frame |-> frames_out[1]],
              resized |-> frames_out]
        ELSE IF force_aspect_ratio
        THEN [img |-> [file |-> FALSE,
                       frame |-> Resize(frames[1], resolution)],
              resized |-> <<>>]
        ELSE [img |-> [file |-> TRUE,
                       frame |-> Thumbnail(frames[1], resolution)],
              resized |-> <<>>]

\* lines 127-149: the JPEG branch
JpegStage(st, output_pillow_format) ==
    LET img == st.img
        enter == output_pillow_format = JPEG /\ img.frame.mode \in {"RGBA", "LA", "P"}
        img_a == IF enter /\ img.frame.mode = "P" /\ img.frame.transparency
                 THEN [file |-> FALSE, frame |-> Convert(img.frame, "RGBA")]
                 ELSE img
        to_rgb == enter /\ img_a.frame.mode \in {"RGBA", "LA"}
    IN  IF to_rgb
        THEN [img |-> [file |-> FALSE, frame |-> Convert(img_a.frame, "RGB")],
              resized |-> [i \in 1..Len(st.resized) |->
                              IF st.resized[i].mode \in {"RGBA", "LA"}
                              THEN Convert(st.resized[i], "RGB")
                              ELSE st.resized[i]]]
        ELSE [img |-> img_a, resized |-> st.resized]

\* lines 151-171: the APNG branch
ApngStage(st, output_is_apng) ==
    IF output_is_apng /\ st.img.frame.mode = "P" /\ st.img.frame.transparency
    THEN [img |-> [file |-> FALSE, frame |-> Convert(st.img.frame, "RGBA")],
          resized |-> [i \in 1..Len(st.resized) |->
                          IF st.resized[i].mode = "P" /\ st.resized[i].transparency
                          THEN Convert(st.resized[i], "RGBA")
                          ELSE st.resized[i]]]
    ELSE st

\* lines 202-226: the frames appended when the source was not resized
FramesToSaveOrig(frames, output_pillow_format, output_is_apng) ==
    [j \in 1..(Len(frames) - 1) |->
        LET current_frame == frames[j + 1] IN
        IF output_is_apng /\ current_frame.mode = "P" /\ current_frame.transparency
        THEN Convert(current_frame, "RGBA")
        ELSE IF output_pillow_format = JPEG
                /\ current_frame.mode \in {"RGBA", "LA", "P"}
        THEN LET c == IF current_frame.mode = "P" /\ current_frame.transparency
                      THEN Convert(current_frame, "RGBA")
                      ELSE current_frame
             IN  IF c.mode \in {"RGBA", "LA"} THEN Convert(c, "RGB") ELSE c
        ELSE current_frame]

\* info.get(key, default) on an entry of the info dict
InfoGet(entry, default) == IF entry = <<>> THEN default ELSE entry[1]

\* lines 177-181: is_saving_animated.  A plain Image (the result of convert,
\* resize or a resized frame) has no is_animated attribute
IsSavingAnimated(st, frames) ==
    st.resized # <<>> \/ (st.img.file /\ Len(frames) > 1 /\ st.resized = <<>>)

\* lines 190-193: the guard of an animated save to HEIF without the codec.
\* Its first statement, logger.warning(), is called without the required msg
\* argument and raises TypeError, so lines 192-193 (the save of the first
\* frame and return True) are never run
HeifGuardRaises(output_pillow_format, heif_loaded) ==
    output_pillow_format = HEIF /\ ~heif_loaded

\* lines 50-273.  The result records what the call did: ok is the value
\* returned, image and append_images are what Image.save was given, error is
\* the exception that an except clause caught
_process_single_image(frames, fault, output_pillow_format, output_is_apng, resolution, force_aspect_ratio, heif_loaded) ==
    LET call == [NoCall EXCEPT !.called = TRUE, !.source = frames,
                     !.fault = fault,
                     !.output_pillow_format = output_pillow_format,
                     !.output_is_apng = output_is_apng,
                     !.target_resolution = resolution,
                     !.force_aspect_ratio = force_aspect_ratio]
        st == ApngStage(JpegStage(ResizeStage(frames, resolution,
                                              force_aspect_ratio),
                                  output_pillow_format),
                        output_is_apng)
        animated_save == /\ IsSavingAnimated(st, frames)
                         /\ output_pillow_format \in MultiFrameFormats
        save_options == get_pillow_save_options(output_pillow_format)
        append == IF st.resized # <<>>
                  THEN Tail(st.resized)
                  ELSE FramesToSaveOrig(frames, output_pillow_format,
                                        output_is_apng)
    IN  IF fault.at = "open"
        THEN [call EXCEPT !.error = fault.kind]
        ELSE IF animated_save /\ HeifGuardRaises(output_pillow_format, heif_loaded)
        THEN [call EXCEPT !.error = "TypeError"]
        ELSE IF fault.at = "save"
        THEN [call EXCEPT !.error = fault.kind]
        ELSE IF animated_save
        THEN [call EXCEPT !.ok = TRUE, !.saved = TRUE, !.save_all = TRUE,
                          !.save_options = save_options \cup
                              {"save_all", "duration", "loop", "append_images"},
                          !.duration = <<InfoGet(st.img.frame.duration, 100)>>,
                          !.loop = <<InfoGet(st.img.frame.loop, 0)>>,
                          !.image = <<st.img.frame>>,
                          !.append_images = append]
        ELSE [call EXCEPT !.ok = TRUE, !.saved = TRUE,
                          !.save_options = save_options,
                          !.image = <<st.img.frame>>]

-----------------------------------------------------------------------------
(* Paths: a file name is a string; all files live in the one input         *)
(* directory (Path.glob is not recursive)                                  *)

\* str comparison, by code point
RECURSIVE StrLess(_, _)
StrLess(a, b) ==
    IF a = <<>> THEN b # <<>>
    ELSE IF b = <<>> THEN FALSE
    ELSE IF Head(a) = Head(b) THEN StrLess(Tail(a), Tail(b))
    ELSE Ord(Head(a)) < Ord(Head(b))

\* a faulty variant of sorted(...): descending order
RECURSIVE SortedDescending(_)
SortedDescending(S) ==
    IF S = {} THEN <<>>
    ELSE LET m == CHOOSE x \in S : \A y \in S \ {x} : StrLess(y, x)
         IN  <<m>> \o SortedDescending(S \ {m})

\* sorted(...)
RECURSIVE Sorted(_)
Sorted(S) ==
    IF S = {} THEN <<>>
    ELSE LET m == CHOOSE x \in S : \A y \in S \ {x} : StrLess(x, y)
         IN  <<m>> \o Sorted(S \ {m})

\* list(...) of a glob result: the directory order is whatever the OS gives
RECURSIVE AnyOrder(_)
AnyOrder(S) ==
    IF S = {} THEN <<>>
    ELSE LET x == CHOOSE x \in S : TRUE IN <<x>> \o AnyOrder(S \ {x})

ToSet(q) == {q[i] : i \in 1..Len(q)}

\* input_dir.glob(pattern=f"*{suffix}")
Glob(listing, suffix) == AnyOrder({f \in listing : EndsWith(f, suffix)})

\* PurePath.stem: the name without its last suffix
Stem(name) ==
    LET dots == {i \in 2..Len(name) : name[i] = "."}
    IN  IF dots = {} \/ name[Len(name)] = "."
        THEN name
        ELSE SubSeq(name, 1, (CHOOSE i \in dots : \A j \in dots : j <= i) - 1)

-----------------------------------------------------------------------------
(* src/image_processing.py: find_image_files                               *)

RECURSIVE GlobSuffixes(_, _)
GlobSuffixes(listing, suffixes) ==
    IF suffixes = <<>> THEN <<>>
    ELSE Glob(listing, Head(suffixes)) \o GlobSuffixes(listing, Tail(suffixes))

\* lines 29-33: the loop over SUPPORTED_FORMATS.items()
RECURSIVE GlobAllFormats(_, _, _)
GlobAllFormats(listing, keys, heif_loaded) ==
    IF keys = <<>> THEN <<>>
    ELSE LET fmt_details_loop == SUPPORTED_FORMATS(Head(keys))
             rest == GlobAllFormats(listing, Tail(keys), heif_loaded)
         IN  IF fmt_details_loop.pillow_format = HEIF /\ ~heif_loaded
             THEN rest
             ELSE GlobSuffixes(listing, fmt_details_loop.suffixes) \o rest

\* a faulty variant of find_image_files: the HEIF codec is never consulted
FindImageFilesNoCodecCheck(listing, details, heif_loaded) ==
    Sorted(ToSet(IF details.pillow_format = ALL_FORMATS_KEYWORD
                 THEN GlobAllFormats(listing, FormatKeys, TRUE)
                 ELSE GlobSuffixes(listing, details.suffixes)))

find_image_files(listing, details, heif_loaded) ==
    LET files ==
            IF details.pillow_format = ALL_FORMATS_KEYWORD
            THEN GlobAllFormats(listing, FormatKeys, heif_loaded)
            ELSE IF details.pillow_format = HEIF /\ ~heif_loaded
            THEN <<>>
            ELSE GlobSuffixes(listing, details.suffixes)
    IN  IF details.pillow_format # ALL_FORMATS_KEYWORD
           /\ details.pillow_format = HEIF /\ ~heif_loaded
        THEN <<>>
        ELSE Sorted(ToSet(files))

-----------------------------------------------------------------------------
(* Inputs                                                                  *)

\* --input-format values tried by the command
InputFormatStrings ==
    { <<"a","l","l">>, <<".","P","N","G">>, <<"h","e","i","c">>,
      <<"x","y","z">> }

\* --output-format values tried by the command
OutputFormatStrings ==
    { <<"j","p","g">>, <<"a","p","n","g">>, <<"g","i","f">>,
      <<"b","m","p">>, <<"h","e","i","c">>, <<"a","l","l">>,
      <<"x","y","z">> }

\* --width / --height: 0 stands for None (typer enforces min=1)
OptionalDimensions == {0, 800}

\* the files the input directory may hold
DirectoryUniverse ==
    { <<"a",".","p","n","g">>, <<"a",".","j","p","g">>,
      <<"b",".","h","e","i","c">> }

\* what the files of a batch run decode to
BatchImages ==
    LET kinds(i) == {PlainFrame(i, "RGB", FALSE), PlainFrame(i, "P", TRUE)}
    IN  {s \in Images : \A i \in 1..Len(s) : s[i] \in kinds(i - 1)}

NoArgs ==
    [input_format_str |-> <<>>, output_format_str |-> <<>>, width |-> 0,
     height |-> 0, force_aspect_ratio |-> FALSE]

NoEffects ==
    [listing |-> {}, scanned |-> FALSE, output_dir_created |-> FALSE,
     opened |-> <<>>, written |-> {}]

NoResolve ==
    [format_str |-> <<>>, format_type |-> "output", called |-> FALSE,
     exit |-> FALSE, details |-> NoDetails]

Defaults ==
    /\ args = NoArgs
    /\ input_format_details = NoDetails
    /\ output_format_details = NoDetails
    /\ output_file_extension = <<>>
    /\ target_resolution = <<>>
    /\ files_to_process = <<>>
    /\ idx = 0
    /\ processed_count = 0
    /\ error_count = 0
    /\ result = <<>>
    /\ exit_code = -1
    /\ fs = NoEffects
    /\ progress = [completed |-> 0, total |-> 0]
    /\ last = NoCall
    /\ resolve = NoResolve

-----------------------------------------------------------------------------
(* src/app.py: process                                                     *)

Exit(code) ==
    /\ pc' = "exit"
    /\ exit_code' = code

\* the command is invoked with its options
Invoke ==
    /\ pc = "start"
    /\ \E i \in InputFormatStrings, o \in OutputFormatStrings,
          w \in OptionalDimensions, h \in OptionalDimensions, f \in BOOLEAN :
          args' = [input_format_str |-> i, output_format_str |-> o,
                   width |-> w, height |-> h, force_aspect_ratio |-> f]
    /\ pc' = "validate_input"
    /\ UNCHANGED <<pillow_heif, input_format_details, output_format_details,
                   output_file_extension, target_resolution, files_to_process,
                   idx, processed_count, error_count, result, exit_code, fs,
                   progress, last, resolve>>

\* lines 116-120
ValidateInputFormat ==
    /\ pc = "validate_input"
    /\ LET r == validate_and_get_format_details(args.input_format_str, "input")
       IN  IF r.exit
           THEN Exit(1) /\ UNCHANGED input_format_details
           ELSE /\ input_format_details' = r.details
                /\ pc' = "validate_output"
                /\ UNCHANGED exit_code
    /\ UNCHANGED <<pillow_heif, args, output_format_details,
                   output_file_extension, target_resolution, files_to_process,
                   idx, processed_count, error_count, result, fs, progress,
                   last, resolve>>

\* lines 121-127
ValidateOutputFormat ==
    /\ pc = "validate_output"
    /\ LET r == validate_and_get_format_details(args.output_format_str, "output")
       IN  IF r.exit
           THEN /\ Exit(1)
                /\ UNCHANGED <<output_format_details, output_file_extension>>
           ELSE /\ output_format_details' = r.details
                /\ output_file_extension' = r.details.suffixes[1]
                /\ pc' = "resolution"
                /\ UNCHANGED exit_code
    /\ UNCHANGED <<pillow_heif, args, input_format_details, target_resolution,
                   files_to_process, idx, processed_count, error_count, result,
                   fs, progress, last, resolve>>

\* a faulty variant of ResolutionCheck: the elif branch is missing
ResolutionCheckNoElif(width, height) ==
    IF width # 0 /\ height # 0
    THEN [exit |-> FALSE, target_resolution |-> <<width, height>>]
    ELSE [exit |-> FALSE, target_resolution |-> <<>>]

\* lines 129-139
ResolutionCheck(width, height) ==
    IF width # 0 /\ height # 0
    THEN [exit |-> FALSE, target_resolution |-> <<width, height>>]
    ELSE IF width # 0 \/ height # 0
    THEN [exit |-> TRUE, target_resolution |-> <<>>]
    ELSE [exit |-> FALSE, target_resolution |-> <<>>]

CheckResolution ==
    /\ pc = "resolution"
    /\ LET r == ResolutionCheck(args.width, args.height)
       IN  IF r.exit
           THEN Exit(1) /\ UNCHANGED target_resolution
           ELSE /\ target_resolution' = r.target_resolution
                /\ pc' = "input_dir"
                /\ UNCHANGED exit_code
    /\ UNCHANGED <<pillow_heif, args, input_format_details,
                   output_format_details, output_file_extension,
                   files_to_process, idx, processed_count, error_count, result,
                   fs, progress, last, resolve>>

\* line 153, utils.ensure_directory_exists(dir_type="input"), lines 42-48
EnsureInputDirectory ==
    /\ pc = "input_dir"
    /\ \E kind \in {"directory", "missing", "file"} :
          IF kind = "directory"
          THEN pc' = "output_dir" /\ UNCHANGED exit_code
          ELSE Exit(1)
    /\ UNCHANGED <<pillow_heif, args, input_format_details,
                   output_format_details, output_file_extension,
                   target_resolution, files_to_process, idx, processed_count,
                   error_count, result, fs, progress, last, resolve>>

\* line 154, utils.ensure_directory_exists(dir_type="output"), lines 50-56
EnsureOutputDirectory ==
    /\ pc = "output_dir"
    /\ \E mkdir_ok \in BOOLEAN :
          IF mkdir_ok
          THEN /\ fs' = [fs EXCEPT !.output_dir_created = TRUE]
               /\ pc' = "discover"
               /\ UNCHANGED exit_code
          ELSE Exit(1) /\ UNCHANGED fs
    /\ UNCHANGED <<pillow_heif, args, input_format_details,
                   output_format_details, output_file_extension,
                   target_resolution, files_to_process, idx, processed_count,
                   error_count, result, progress, last, resolve>>

\* lines 185-195
FindImageFiles ==
    /\ pc = "discover"
    /\ \E listing \in SUBSET DirectoryUniverse :
          LET found == find_image_files(listing, input_format_details,
                                        pillow_heif)
          IN  /\ fs' = [fs EXCEPT !.listing = listing, !.scanned = TRUE]
              /\ files_to_process' = found
              /\ IF found = <<>>
                 THEN Exit(0)
                 ELSE pc' = "batch" /\ UNCHANGED exit_code
    /\ UNCHANGED <<pillow_heif, args, input_format_details,
                   output_format_details, output_file_extension,
                   target_resolution, idx, processed_count, error_count,
                   result, progress, last, resolve>>

-----------------------------------------------------------------------------
(* src/image_processing.py: run_batch_processing                           *)

\* lines 289-292
OutputIsApng(details, extension) ==
    details.pillow_format = PNG /\ Lower(extension) = <<".","a","p","n","g">>

\* a faulty variant of CodecMissing: the availability check is skipped
CodecMissingNever(output_pillow_format, heif_loaded) == FALSE

\* line 294
CodecMissing(output_pillow_format, heif_loaded) ==
    output_pillow_format = HEIF /\ ~heif_loaded

\* lines 286-323: up to the loop
BatchStart ==
    /\ pc = "batch"
    /\ processed_count' = 0
    /\ error_count' = 0
    /\ idx' = 0
    /\ IF CodecMissing(output_format_details.pillow_format, pillow_heif)
       THEN /\ result' = <<0, Len(files_to_process)>>
            /\ pc' = "summary"
            /\ UNCHANGED progress
       ELSE /\ progress' = [completed |-> 0, total |-> Len(files_to_process)]
            /\ pc' = "loop"
            /\ UNCHANGED result
    /\ UNCHANGED <<pillow_heif, args, input_format_details,
                   output_format_details, output_file_extension,
                   target_resolution, files_to_process, exit_code, fs, last,
                   resolve>>

\* a faulty variant of LoopContinues: the loop stops at the first failed file
LoopStopsOnError(i, n, errors) == i < n /\ errors = 0

\* line 325: the for loop has a next element
LoopContinues(i, n, errors) == i < n

\* a faulty variant of CountOutcome: a failed file is counted in both counters
CountOutcomeBoth(ok, processed, errors) ==
    [processed_count |-> processed + 1,
     error_count |-> IF ok THEN errors ELSE errors + 1]

\* lines 334-345
CountOutcome(ok, processed, errors) ==
    IF ok
    THEN [processed_count |-> processed + 1, error_count |-> errors]
    ELSE [processed_count |-> processed, error_count |-> errors + 1]

\* lines 325-330: the loop takes its next path and advances the progress task
AdvanceProgress ==
    /\ pc = "loop"
    /\ LoopContinues(idx, Len(files_to_process), error_count)
    /\ progress' = [progress EXCEPT !.completed = @ + 1]
    /\ pc' = "file"
    /\ UNCHANGED <<pillow_heif, args, input_format_details,
                   output_format_details, output_file_extension,
                   target_resolution, files_to_process, idx, processed_count,
                   error_count, result, exit_code, fs, last, resolve>>

\* lines 331-345: the rest of the iteration.  When Image.open raises, what
\* the file would have decoded to is never seen (source = <<>>)
ProcessFile ==
    /\ pc = "file"
    /\ LET input_path == files_to_process[idx + 1]
           output_path == Stem(input_path) \o output_file_extension
       IN  \E image \in BatchImages, fault \in Faults :
              LET r == _process_single_image(
                           IF fault.at = "open" THEN <<>> ELSE image, fault,
                           output_format_details.pillow_format,
                           OutputIsApng(output_format_details,
                                        output_file_extension),
                           target_resolution,
                           IF target_resolution # <<>>
                           THEN args.force_aspect_ratio ELSE FALSE,
                           pillow_heif)
                  c == CountOutcome(r.ok, processed_count, error_count)
              IN  /\ last' = r
                  /\ fs' = [fs EXCEPT
                              !.opened = Append(@, input_path),
                              !.written = IF r.saved THEN @ \cup {output_path}
                                          ELSE @]
                  /\ processed_count' = c.processed_count
                  /\ error_count' = c.error_count
    /\ idx' = idx + 1
    /\ pc' = "loop"
    /\ UNCHANGED <<pillow_heif, args, input_format_details,
                   output_format_details, output_file_extension,
                   target_resolution, files_to_process, result, exit_code,
                   progress, resolve>>

\* line 346
BatchReturn ==
    /\ pc = "loop"
    /\ ~LoopContinues(idx, Len(files_to_process), error_count)
    /\ result' = <<processed_count, error_count>>
    /\ pc' = "summary"
    /\ UNCHANGED <<pillow_heif, args, input_format_details,
                   output_format_details, output_file_extension,
                   target_resolution, files_to_process, idx, processed_count,
                   error_count, exit_code, fs, progress, last, resolve>>

\* app.py lines 207-234: the summary is printed and the command ends
Summary ==
    /\ pc = "summary"
    /\ Exit(0)
    /\ UNCHANGED <<pillow_heif, args, input_format_details,
                   output_format_details, output_file_extension,
                   target_resolution, files_to_process, idx, processed_count,
                   error_count, result, fs, progress, last, resolve>>

Init ==
    /\ pc = "start"
    /\ pillow_heif \in BOOLEAN
    /\ Defaults

Next ==
    \/ Invoke
    \/ ValidateInputFormat
    \/ ValidateOutputFormat
    \/ CheckResolution
    \/ EnsureInputDirectory
    \/ EnsureOutputDirectory
    \/ FindImageFiles
    \/ BatchStart
    \/ AdvanceProgress
    \/ ProcessFile
    \/ BatchReturn
    \/ Summary

Spec == Init /\ [][Next]_vars

-----------------------------------------------------------------------------
(* _process_single_image called on its own, with any arguments             *)

PillowFormats == {PNG, JPEG, WEBP, TIFF, BMP, GIF, HEIF}

\* When Image.open raises, what the file would have decoded to is never
\* seen (source = <<>>)
SingleCall ==
    /\ pc = "single"
    /\ \E image \in Images, fault \in Faults, fmt \in PillowFormats,
          apng \in BOOLEAN, res \in {<<>>, <<800, 600>>}, force \in BOOLEAN :
          /\ apng => fmt = PNG
          /\ last' = _process_single_image(
                         IF fault.at = "open" THEN <<>> ELSE image, fault, fmt,
                         apng, res, force, pillow_heif)
    /\ pc' = "single_done"
    /\ UNCHANGED <<pillow_heif, args, input_format_details,
                   output_format_details, output_file_extension,
                   target_resolution, files_to_process, idx, processed_count,
                   error_count, result, exit_code, fs, progress, resolve>>

InitSingle ==
    /\ pc = "single"
    /\ pillow_heif \in BOOLEAN
    /\ Defaults

NextSingle == SingleCall

SpecSingle == InitSingle /\ [][NextSingle]_vars

-----------------------------------------------------------------------------
(* _process_single_image called on sources of every small size             *)

MaxDim == 3

\* the sizes of a frame, and the boxes --width / --height may ask for
Sizes == (1..MaxDim) \X (1..MaxDim)

\* RGB sources whose frames (the pages of a TIFF, say) each have their size
RECURSIVE SizedImagesOfLength(_)
SizedImagesOfLength(n) ==
    IF n = 0 THEN {<<>>}
    ELSE {Append(s, [PlainFrame(n - 1, "RGB", FALSE) EXCEPT !.size = z]) :
              s \in SizedImagesOfLength(n - 1), z \in Sizes}

SizedImages == UNION {SizedImagesOfLength(n) : n \in 1..MaxFrames}

ResizeCall ==
    /\ pc = "resize"
    /\ \E image \in SizedImages, fmt \in {TIFF, JPEG},
          res \in {<<>>} \cup Sizes, force \in BOOLEAN :
          last' = _process_single_image(image, NoFault, fmt, FALSE, res,
                                        force, pillow_heif)
    /\ pc' = "resize_done"
    /\ UNCHANGED <<pillow_heif, args, input_format_details,
                   output_format_details, output_file_extension,
                   target_resolution, files_to_process, idx, processed_count,
                   error_count, result, exit_code, fs, progress, resolve>>

InitResize ==
    /\ pc = "resize"
    /\ pillow_heif \in BOOLEAN
    /\ Defaults

NextResize == ResizeCall

SpecResize == InitResize /\ [][NextResize]_vars

-----------------------------------------------------------------------------
(* _process_single_image called on animations with timing metadata         *)

\* the "duration" entry of a frame's info dict, in ms; <<>>: no entry
Durations == {<<>>, <<40>>, <<200>>}

\* the "loop" entry of the info dict; it belongs to the file, so every frame
\* shows the same
Loops == {<<>>, <<0>>, <<3>>}

RECURSIVE TimedImagesOfLength(_, _)
TimedImagesOfLength(n, loop) ==
    IF n = 0 THEN {<<>>}
    ELSE {Append(s, [PlainFrame(n - 1, "RGB", FALSE)
                        EXCEPT !.duration = d, !.loop = loop]) :
              s \in TimedImagesOfLength(n - 1, loop), d \in Durations}

TimedImages ==
    UNION {TimedImagesOfLength(n, loop) : n \in 1..MaxFrames, loop \in Loops}

AnimCall ==
    /\ pc = "anim"
    /\ \E image \in TimedImages, fmt \in {GIF, WEBP},
          res \in {<<>>, <<800, 600>>}, force \in BOOLEAN :
          last' = _process_single_image(image, NoFault, fmt, FALSE, res,
                                        force, pillow_heif)
    /\ pc' = "anim_done"
    /\ UNCHANGED <<pillow_heif, args, input_format_details,
                   output_format_details, output_file_extension,
                   target_resolution, files_to_process, idx, processed_count,
                   error_count, result, exit_code, fs, progress, resolve>>

InitAnim ==
    /\ pc = "anim"
    /\ pillow_heif \in BOOLEAN
    /\ Defaults

NextAnim == AnimCall

SpecAnim == InitAnim /\ [][NextAnim]_vars

-----------------------------------------------------------------------------
(* validate_and_get_format_details called on its own                       *)

MaxDots == 1

UpperChar(c) == IF Ord(c) \in 28..53 THEN Alphabet[Ord(c) - 26] ELSE c

\* every spelling of k that differs from it in letter case only
RECURSIVE CaseVariants(_)
CaseVariants(k) ==
    IF k = <<>> THEN {<<>>}
    ELSE {<<c>> \o rest : c \in {Head(k), UpperChar(Head(k))},
                          rest \in CaseVariants(Tail(k))}

Dots(d) == [i \in 1..d |-> "."]

\* every spelling of k in any letter case, behind up to MaxDots leading dots
Variants(k) == {Dots(d) \o v : d \in 0..MaxDots, v \in CaseVariants(k)}

\* strings that spell no registered identifier
OtherStrings ==
    { <<>>, <<".">>, <<"x","y","z">>, <<"p","n","g",".">>, <<"p",".","n","g">>,
      <<"p","n">>, <<"p","n","g","s">> }

ResolveStrings ==
    UNION {Variants(k) : k \in KeySet \cup {ALL_FORMATS_KEYWORD}}
    \cup OtherStrings

ResolveCall ==
    /\ pc = "resolve"
    /\ LET r == validate_and_get_format_details(resolve.format_str,
                                                resolve.format_type)
       IN  resolve' = [resolve EXCEPT !.called = TRUE, !.exit = r.exit,
                                      !.details = r.details]
    /\ pc' = "resolved"
    /\ UNCHANGED <<pillow_heif, args, input_format_details,
                   output_format_details, output_file_extension,
                   target_resolution, files_to_process, idx, processed_count,
                   error_count, result, exit_code, fs, progress, last>>

InitResolve ==
    /\ pc = "resolve"
    /\ pillow_heif = FALSE
    /\ args = NoArgs
    /\ input_format_details = NoDetails
    /\ output_format_details = NoDetails
    /\ output_file_extension = <<>>
    /\ target_resolution = <<>>
    /\ files_to_process = <<>>
    /\ idx = 0
    /\ processed_count = 0
    /\ error_count = 0
    /\ result = <<>>
    /\ exit_code = -1
    /\ fs = NoEffects
    /\ progress = [completed |-> 0, total |-> 0]
    /\ last = NoCall
    /\ \E s \in ResolveStrings, t \in {"input", "output"} :
          resolve = [NoResolve EXCEPT !.format_str = s, !.format_type = t]

NextResolve == ResolveCall

SpecResolve == InitResolve /\ [][NextResolve]_vars

-----------------------------------------------------------------------------
(* find_image_files called on its own                                      *)

\* the files the scanned directory may hold
DiscoverUniverse ==
    { <<"a",".","p","n","g">>, <<"a",".","j","p","g">>,
      <<"b",".","a","p","n","g">>, <<"b",".","h","e","i","c">>,
      <<"c",".","a","v","i","f">>, <<"c",".","h","e","i","f">>,
      <<"d",".","j","p","e","g">>, <<"e",".","t","x","t">> }

\* the format filters: the details of a registered format, or the sentinel
FormatFilters == {SUPPORTED_FORMATS(k) : k \in KeySet} \cup {AllFormatsDetails}

DiscoverCall ==
    /\ pc = "find"
    /\ files_to_process' =
           find_image_files(fs.listing, input_format_details, pillow_heif)
    /\ fs' = [fs EXCEPT !.scanned = TRUE]
    /\ pc' = "found"
    /\ UNCHANGED <<pillow_heif, args, input_format_details,
                   output_format_details, output_file_extension,
                   target_resolution, idx, processed_count, error_count,
                   result, exit_code, progress, last, resolve>>

InitDiscover ==
    /\ pc = "find"
    /\ pillow_heif \in BOOLEAN
    /\ args = NoArgs
    /\ input_format_details \in FormatFilters
    /\ output_format_details = NoDetails
    /\ output_file_extension = <<>>
    /\ target_resolution = <<>>
    /\ files_to_process = <<>>
    /\ idx = 0
    /\ processed_count = 0
    /\ error_count = 0
    /\ result = <<>>
    /\ exit_code = -1
    /\ \E listing \in SUBSET DiscoverUniverse :
          fs = [NoEffects EXCEPT !.listing = listing]
    /\ progress = [completed |-> 0, total |-> 0]
    /\ last = NoCall
    /\ resolve = NoResolve

NextDiscover == DiscoverCall

SpecDiscover == InitDiscover /\ [][NextDiscover]_vars

-----------------------------------------------------------------------------
(* Properties                                                              *)

\* s spells identifier k: any letter case, any number of leading dots
SpellsKey(s, k) ==
    \E d \in 0..Len(s) :
        /\ Len(s) = d + Len(k)
        /\ \A i \in 1..d : s[i] = "."
        /\ \A i \in 1..Len(k) : s[d + i] \in {k[i], UpperChar(k[i])}

Registered(s) == \E k \in KeySet : SpellsKey(s, k)

\* the batch runner was entered by this run of the command
BatchEntered ==
    \/ pc \in {"loop", "file", "summary"}
    \/ pc = "exit" /\ result # <<>>

HeifWithoutCodec == output_format_details.pillow_format = HEIF /\ ~pillow_heif

\* C1: with the target codec available, every path of the list is attempted
\* exactly once and in list order, whatever the outcome of each file: while
\* the loop runs the attempts are the first idx paths, and once the batch has
\* returned they are the whole list.
C1_EveryPathAttemptedInOrder ==
    (BatchEntered /\ ~HeifWithoutCodec) =>
        /\ idx <= Len(files_to_process)
        /\ fs.opened = SubSeq(files_to_process, 1, idx)
        /\ pc \in {"summary", "exit"} => fs.opened = files_to_process

\* a batch of three files has returned, two of them failed, all were attempted
C1_Witness ==
    /\ pc = "summary"
    /\ Len(files_to_process) = 3
    /\ result = <<1, 2>>
    /\ fs.opened = files_to_process

\* C2: with a HEIF output format and no HEIF codec loaded the batch returns
\* (0, number of paths) and has opened no input file and written no output.
C2_HeifShortCircuit ==
    (BatchEntered /\ HeifWithoutCodec) =>
        /\ pc \notin {"loop", "file"}
        /\ result = <<0, Len(files_to_process)>>
        /\ fs.opened = <<>>
        /\ fs.written = {}

\* the short circuit was taken for a list of two or more files
C2_Witness ==
    /\ pc = "summary"
    /\ HeifWithoutCodec
    /\ Len(files_to_process) >= 2
    /\ result = <<0, Len(files_to_process)>>

\* C3: the two counters never decrease, a step that handles a file raises
\* exactly one of them by exactly one, no other step changes them, and the
\* returned pair sums to the number of input paths.
C3_CountersMonotone ==
    [][/\ processed_count' >= processed_count
       /\ error_count' >= error_count
       /\ (idx' = idx + 1) =>
             \/ /\ processed_count' = processed_count + 1
                /\ error_count' = error_count
             \/ /\ processed_count' = processed_count
                /\ error_count' = error_count + 1
       /\ (idx' = idx) =>
             /\ processed_count' = processed_count
             /\ error_count' = error_count
       /\ (result' # result) =>
             result'[1] + result'[2] = Len(files_to_process')]_vars

\* a batch of three files returned two successes and one error
C3_Witness ==
    /\ pc = "summary"
    /\ Len(files_to_process) = 3
    /\ processed_count = 2
    /\ error_count = 1
    /\ result = <<2, 1>>

HasAlphaOrPaletteTransparency(f) ==
    \/ f.mode \in {"RGBA", "LA"}
    \/ f.mode = "P" /\ f.transparency

\* C4: for a JPEG target, a source whose first frame is RGBA, LA or Palette
\* with a transparency entry reaches the encoder in RGB mode, resized or not,
\* under either aspect policy.
C4_JpegGetsRgb ==
    (/\ last.called
     /\ last.saved
     /\ last.output_pillow_format = JPEG
     /\ HasAlphaOrPaletteTransparency(last.source[1]))
        => last.image[1].mode = "RGB"

\* C5: when the requested output format is 'apng', a Palette source with a
\* transparency entry reaches the encoder in RGBA mode: its first frame, and
\* every further frame handed to the encoder.
C5_ApngGetsRgba ==
    (/\ last.called
     /\ last.saved
     /\ SpellsKey(args.output_format_str, <<"a","p","n","g">>)
     /\ last.source[1].mode = "P"
     /\ last.source[1].transparency)
        => /\ last.image[1].mode = "RGBA"
           /\ \A i \in 1..Len(last.append_images) :
                 last.append_images[i].mode = "RGBA"

\* the frames the encoder was handed: the image saved, then append_images
HandedFrames == last.image \o last.append_images

\* C6: the encoder is handed more than one frame exactly when the source has
\* more than one frame and the target is GIF, WEBP, TIFF, PNG or HEIF; it is
\* then handed every source frame, in source order; otherwise it is handed
\* the first frame only and the file counts as processed.
C6_FramesHanded ==
    (last.called /\ last.fault = NoFault) =>
        LET n == Len(last.source)
            multi == n > 1 /\ last.output_pillow_format \in MultiFrameFormats
        IN  /\ last.ok /\ last.saved
            /\ (Len(HandedFrames) > 1) <=> multi
            /\ multi =>
                  /\ Len(HandedFrames) = n
                  /\ \A i \in 1..n : HandedFrames[i].index = i - 1
            /\ ~multi =>
                  /\ Len(HandedFrames) = 1
                  /\ HandedFrames[1].index = 0

\* C7: an animated source saved to HEIF without the HEIF codec is saved as
\* its first frame alone, with a warning, and the call returns True.
C7_HeifFallbackSucceeds ==
    (/\ last.called
     /\ last.fault = NoFault
     /\ last.output_pillow_format = HEIF
     /\ ~pillow_heif
     /\ Len(last.source) > 1)
        => /\ last.ok
           /\ last.saved
           /\ last.warned
           /\ Len(last.image) = 1
           /\ last.append_images = <<>>

PartialResolution == (args.width = 0) # (args.height = 0)

\* C8: when exactly one of --width / --height is given the command never gets
\* past the resolution check: it ends with exit code 1, the input directory
\* was not scanned, the output directory was not created and no image was
\* opened or written.
C8_PartialResolutionAborts ==
    PartialResolution =>
        /\ pc \in {"validate_input", "validate_output", "resolution", "exit"}
        /\ pc = "exit" => exit_code = 1
        /\ ~fs.scanned
        /\ ~fs.output_dir_created
        /\ fs.opened = <<>>
        /\ fs.written = {}

\* both formats were accepted and the command ended on the resolution check
C8_Witness ==
    /\ PartialResolution
    /\ output_format_details # NoDetails
    /\ pc = "exit"
    /\ exit_code = 1

\* C9: 'all' (in any spelling) is accepted for the input role and yields the
\* all-formats sentinel; 'all' for the output role, and for either role a
\* string that spells no registered identifier, ends the command with exit
\* code 1 before discovery and before the batch.
C9_WildcardInputOnly ==
    /\ (/\ pc \notin {"start", "validate_input"}
        /\ SpellsKey(args.input_format_str, ALL_FORMATS_KEYWORD))
          => input_format_details = AllFormatsDetails
    /\ (/\ pc # "start"
        /\ \/ ~Registered(args.output_format_str)
           \/ /\ ~Registered(args.input_format_str)
              /\ ~SpellsKey(args.input_format_str, ALL_FORMATS_KEYWORD))
          => /\ pc \in {"validate_input", "validate_output", "exit"}
             /\ pc = "exit" => exit_code = 1
             /\ ~fs.scanned
             /\ ~BatchEntered
             /\ fs.opened = <<>>

\* input 'all' was accepted, then output 'all' ended the command with code 1
C9_Witness ==
    /\ pc = "exit"
    /\ exit_code = 1
    /\ input_format_details = AllFormatsDetails
    /\ args.output_format_str = ALL_FORMATS_KEYWORD

\* C10: a registered identifier resolves to the same details in any letter
\* case and behind leading dots as it does spelled exactly, and those details
\* hold one codec format name and a non-empty list of suffixes, each a file
\* extension, the first being the one used for output.
C10_ResolveCaseAndDotInsensitive ==
    resolve.called =>
        \A k \in KeySet :
            SpellsKey(resolve.format_str, k) =>
                LET exact == validate_and_get_format_details(
                                 k, resolve.format_type)
                IN  /\ ~resolve.exit
                    /\ ~exact.exit
                    /\ resolve.details = exact.details
                    /\ resolve.details.pillow_format \in PillowFormats
                    /\ Len(resolve.details.suffixes) >= 1
                    /\ \A i \in 1..Len(resolve.details.suffixes) :
                          Head(resolve.details.suffixes[i]) = "."

\* ".JpEg" was resolved to the details of "jpeg"
C10_Witness ==
    /\ resolve.called
    /\ resolve.format_str = <<".","J","p","E","g">>
    /\ ~resolve.exit
    /\ resolve.details = SUPPORTED_FORMATS(<<"j","p","e","g">>)

\* name = something followed by suffix
HasSuffix(name, suffix) ==
    \E p \in 0..Len(name) :
        /\ Len(name) = p + Len(suffix)
        /\ \A i \in 1..Len(suffix) : name[p + i] = suffix[i]

\* the suffixes a filter selects: its own, or those of every registered format
SelectedSuffixes(details) ==
    IF details = AllFormatsDetails
    THEN UNION {ToSet(SUPPORTED_FORMATS(k).suffixes) : k \in KeySet}
    ELSE ToSet(details.suffixes)

HeifSuffixes ==
    UNION {ToSet(SUPPORTED_FORMATS(k).suffixes) :
               k \in {j \in KeySet : SUPPORTED_FORMATS(j).pillow_format = HEIF}}

\* the suffixes a filter selects among the formats whose codec is loaded
AvailableSuffixes(details, heif_loaded) ==
    IF heif_loaded THEN SelectedSuffixes(details)
    ELSE SelectedSuffixes(details) \ HeifSuffixes

Matching(listing, suffixes) ==
    {f \in listing : \E suffix \in suffixes : HasSuffix(f, suffix)}

NoRepeatAscending(files) ==
    \A i, j \in 1..Len(files) :
        i < j => files[i] # files[j] /\ StrLess(files[i], files[j])

\* C11 as stated: for every directory content and every format filter the
\* returned list repeats no path, is in ascending order and holds exactly the
\* files whose name ends with a suffix of the selected format(s).
C11_DiscoveryExactAsStated ==
    pc = "found" =>
        /\ NoRepeatAscending(files_to_process)
        /\ ToSet(files_to_process) =
              Matching(fs.listing, SelectedSuffixes(input_format_details))

\* C11, amended: the returned list repeats no path, is in ascending order and
\* holds exactly the files whose name ends with a suffix of the selected
\* format(s) whose codec is loaded; a.png, matched by both 'png' and 'apng'
\* under the wildcard filter, is listed once.
C11_DiscoveryExact ==
    pc = "found" =>
        /\ NoRepeatAscending(files_to_process)
        /\ ToSet(files_to_process) =
              Matching(fs.listing,
                       AvailableSuffixes(input_format_details, pillow_heif))
        /\ (/\ input_format_details = AllFormatsDetails
            /\ <<"a",".","p","n","g">> \in fs.listing)
              => Cardinality({i \in 1..Len(files_to_process) :
                     files_to_process[i] = <<"a",".","p","n","g">>}) = 1

\* the wildcard filter found a.png once among four or more files, in order
C11_Witness ==
    /\ pc = "found"
    /\ input_format_details = AllFormatsDetails
    /\ Len(files_to_process) >= 4
    /\ files_to_process[1] = <<"a",".","j","p","g">>
    /\ files_to_process[2] = <<"a",".","p","n","g">>
    /\ <<"e",".","t","x","t">> \in fs.listing

\* C12: without the HEIF codec, the wildcard filter returns every file of
\* the other formats and no file matched only by .heic, .heif or .avif, and
\* a heic/heif filter returns the empty list whatever the directory holds.
C12_HeifSkippedWithoutCodec ==
    (pc = "found" /\ ~pillow_heif) =>
        /\ input_format_details = AllFormatsDetails =>
              /\ \A i \in 1..Len(files_to_process) :
                    \E suffix \in SelectedSuffixes(AllFormatsDetails)
                                      \ HeifSuffixes :
                        HasSuffix(files_to_process[i], suffix)
              /\ \A f \in fs.listing :
                    (\E suffix \in SelectedSuffixes(AllFormatsDetails)
                                       \ HeifSuffixes : HasSuffix(f, suffix))
                        => f \in ToSet(files_to_process)
        /\ input_format_details.pillow_format = HEIF =>
              files_to_process = <<>>

\* without the codec the wildcard filter skipped b.heic and c.avif and kept
\* the two other files
C12_Witness ==
    /\ pc = "found"
    /\ ~pillow_heif
    /\ input_format_details = AllFormatsDetails
    /\ fs.listing = { <<"a",".","p","n","g">>, <<"b",".","h","e","i","c">>,
                      <<"c",".","a","v","i","f">>, <<"d",".","j","p","e","g">> }
    /\ files_to_process = << <<"a",".","p","n","g">>,
                             <<"d",".","j","p","e","g">> >>

\* C13: during a batch run the completed count of the progress sink is
\* advanced for a file only once that file's open-transform-save has ended,
\* so at every moment of the loop it equals processed_count + error_count.
C13_ProgressCountsFinishedFiles ==
    pc \in {"loop", "file"} =>
        progress.completed = processed_count + error_count

\* C14: with a target resolution (W, H), under Forced every frame handed to
\* the encoder has size exactly (W, H); under Fit every such frame has width
\* <= W and height <= H and is in neither dimension larger than the source
\* frame of the same position; with no target resolution every frame keeps
\* the size of its source frame, whatever the Forced flag.
C14_OutputSizes ==
    (last.called /\ last.saved) =>
        LET res == last.target_resolution
            out == HandedFrames
        IN  \A i \in 1..Len(out) :
                /\ (res # <<>> /\ last.force_aspect_ratio) => out[i].size = res
                /\ (res # <<>> /\ ~last.force_aspect_ratio) =>
                      /\ out[i].size[1] <= res[1]
                      /\ out[i].size[2] <= res[2]
                      /\ out[i].size[1] <= last.source[i].size[1]
                      /\ out[i].size[2] <= last.source[i].size[2]
                /\ res = <<>> => out[i].size = last.source[i].size

\* C15: an animated save hands the encoder, for every source frame, that
\* frame's display duration (100 where it has none) and the loop count of
\* the source (0 where it has none), whether or not the frames were resized.
C15_TimingPreserved ==
    (last.called /\ last.saved /\ last.save_all) =>
        /\ \A i \in 1..Len(last.source) :
              last.duration = <<InfoGet(last.source[i].duration, 100)>>
        /\ last.loop = <<InfoGet(last.source[1].loop, 0)>>

\* C16: within one batch run distinct input paths are written to distinct
\* output paths: no output of a processed file is overwritten by a later
\* file, so the output files written number processed_count, also when the
\* list holds files of one stem and different suffixes (a.png and a.jpg).
C16_OutputsNotOverwritten ==
    BatchEntered => Cardinality(fs.written) = processed_count

====
